---- MODULE Spec2Model ----
(***************************************************************************)
(* A model of the supergraph handler                                       *)
(* (packages/legacy/handlers/supergraph/src/index.ts): the loader          *)
(* getSupergraphSdl with its store-proxy cache, the join__Graph name map   *)
(* built by getMeshSource, and the per-subgraph executor options built by  *)
(* the onSubschemaConfig callback (endpoint substitution in fetch, header  *)
(* composition in headers).                                                *)
(***************************************************************************)
EXTENDS Integers, Sequences, FiniteSets, TLC

VARIABLES
  config,             \* this.config: source, subgraphs, operationHeaders
  resource,           \* what the source locator currently yields when read
  changes,            \* how many times the resource was replaced
  supergraphSdl,      \* this.supergraphSdl: the store proxy's cached value
  inflight,           \* the store proxy's pending getWithSet load
  fetchFn,            \* this.fetchFn
  calls,              \* the getMeshSource calls: position, argument, result
  reads,              \* every readUrl / readFile invocation made so far
  populations,        \* how many times the store proxy's value was set
  assemblerCalls,     \* invocations of getStitchedSchemaFromSupergraphSdl
  mapDoc,             \* a supergraph document handed to the name-map loop
  subgraphNameIdMap,  \* the Map built at lines 97-109
  subschemaConfig,    \* the record the Assembler hands to onSubschemaConfig
  outbound            \* the last request an executor passed to the transport

vars == << config, resource, changes, supergraphSdl, inflight, fetchFn, calls,
           reads, populations, assemblerCalls, mapDoc, subgraphNameIdMap,
           subschemaConfig, outbound >>

loaderVars == << resource, changes, supergraphSdl, inflight, fetchFn, calls,
                 reads, populations, assemblerCalls >>

(***************************************************************************)
(* Bounds.                                                                 *)
(***************************************************************************)
MaxCalls == 2
MaxChanges == 1
MaxDirectives == 2
MaxConfigs == 2

(***************************************************************************)
(* JavaScript values.  A value carries its typeof tag in "type"; a string  *)
(* of the endpoint/URL domain is a sequence of characters, so that         *)
(* String.prototype.replace can be computed on it.                         *)
(***************************************************************************)
Undefined == [type |-> "undefined"]
Null == [type |-> "null"]
JsStr(s) == [type |-> "string", value |-> s]

\* v != null
NotNullish(v) == v.type \notin {"undefined", "null"}

\* ToBoolean(v) for the values the handler tests with || and if (...)
Truthy(v) ==
  /\ NotNullish(v)
  /\ ~(v.type = "string" /\ v.value = <<>>)

\* a || b
Or(a, b) == IF Truthy(a) THEN a ELSE b

Min(S) == CHOOSE x \in S : \A y \in S : x <= y

(***************************************************************************)
(* The supergraph document (graphql-js AST, noLocation).  Nodes keep the   *)
(* fields the handler reads: definitions[].kind/name/values,               *)
(* values[].name/directives, directives[].name/arguments,                  *)
(* arguments[].name/value, value.kind/value.                               *)
(***************************************************************************)
StringArg(n, v) == [name |-> n, value |-> [kind |-> "StringValue", value |-> v]]
EnumArg(n, v) == [name |-> n, value |-> [kind |-> "EnumValue", value |-> v]]
Directive(n, args) == [name |-> n, arguments |-> args]
EnumValueNode(n, ds) == [name |-> n, directives |-> ds]
EnumTypeDefinition(n, vs) == [kind |-> "EnumTypeDefinition", name |-> n, values |-> vs]
ObjectTypeDefinition(n) == [kind |-> "ObjectTypeDefinition", name |-> n]
DocumentNode(defs) == [type |-> "object", kind |-> "Document", definitions |-> defs]

\* new Map(), map.set(k, v), map.get(k)
EmptyMap == [k \in {} |-> ""]
MapSet(m, k, v) == [x \in (DOMAIN m) \cup {k} |-> IF x = k THEN v ELSE m[x]]
MapGet(m, k) == IF k \in DOMAIN m THEN [type |-> "string", value |-> m[k]] ELSE Undefined

\* directive.arguments?.find(arg => arg.name.value === 'name'): the set
\* holding the first argument named "name", empty when find yields undefined
NameArg(directive) ==
  LET args == directive.arguments
      hits == {i \in DOMAIN args : args[i].name = "name"}
  IN IF hits = {} THEN {} ELSE {args[Min(hits)]}

\* A variant of SetsName without the test of the argument's kind.
SetsNameOfAnyKind(directive) ==
  /\ directive.name = "join__graph"
  /\ NameArg(directive) # {}

\* lines 101-103: the two tests guarding subgraphNameIdMap.set
SetsName(directive) ==
  /\ directive.name = "join__graph"
  /\ \E a \in NameArg(directive) : a.value.kind = "StringValue"

\* lines 100-107: value.directives?.forEach(...) from directive i on
RECURSIVE ForEachDirective(_, _, _, _)
ForEachDirective(m, valueName, directives, i) ==
  IF i > Len(directives) THEN m
  ELSE LET directive == directives[i]
           m1 == IF SetsName(directive)
                 THEN MapSet(m, valueName,
                             (CHOOSE a \in NameArg(directive) : TRUE).value.value)
                 ELSE m
       IN ForEachDirective(m1, valueName, directives, i + 1)

\* lines 99-108: joingraphEnum.values?.forEach(...) from value i on
RECURSIVE ForEachValue(_, _, _)
ForEachValue(m, values, i) ==
  IF i > Len(values) THEN m
  ELSE ForEachValue(ForEachDirective(m, values[i].name, values[i].directives, 1),
                    values, i + 1)

\* lines 94-96: supergraphSdl.definitions.find(...): the set holding the
\* first join__Graph enum definition, empty when find yields undefined
JoingraphEnum(doc) ==
  LET defs == doc.definitions
      hits == {i \in DOMAIN defs :
                 defs[i].kind = "EnumTypeDefinition" /\ defs[i].name = "join__Graph"}
  IN IF hits = {} THEN {} ELSE {defs[Min(hits)]}

\* lines 97-109: the Map the handler builds from a loaded document
JoinGraphNameMap(doc) ==
  IF JoingraphEnum(doc) = {} THEN EmptyMap
  ELSE ForEachValue(EmptyMap, (CHOOSE e \in JoingraphEnum(doc) : TRUE).values, 1)

(***************************************************************************)
(* Inputs of the name-map check: every pair of directive lists, of up to   *)
(* MaxDirectives directives each, on the two values of join__Graph.        *)
(***************************************************************************)
DirectiveFixtures ==
  { Directive("join__graph", << StringArg("name", "svcA") >>),
    Directive("join__graph", << StringArg("name", "svcB") >>),
    Directive("join__graph", << EnumArg("name", "SVC") >>),
    Directive("join__graph", << StringArg("url", "http://b") >>),
    Directive("join__graph", << StringArg("url", "http://a"), StringArg("name", "svcA") >>),
    Directive("join__graph", << EnumArg("name", "SVC"), StringArg("name", "svcB") >>),
    Directive("deprecated", << StringArg("name", "svcC") >>) }

DirectiveLists == UNION {[1..n -> DirectiveFixtures] : n \in 0..MaxDirectives}

OtherEnum ==
  EnumTypeDefinition("Other",
    << EnumValueNode("A", << Directive("join__graph", << StringArg("name", "svcX") >>) >>) >>)

MapDocs ==
  { DocumentNode(<< ObjectTypeDefinition("Query"), OtherEnum >>) }
  \cup
  { DocumentNode(<< OtherEnum,
                   EnumTypeDefinition("join__Graph",
                     << EnumValueNode("A", da), EnumValueNode("B", db) >>) >>)
      : da \in DirectiveLists, db \in DirectiveLists }

NotBuilt == [type |-> "undefined"]

(***************************************************************************)
(* Strings of the endpoint/URL domain are sequences of characters; the     *)
(* placeholder of an endpoint template is one element, "{context.host}".   *)
(***************************************************************************)
Placeholder == "{context.host}"
HeaderPlaceholder == "{context.token}"

\* getInterpolatedStringFactory(template)(resolverData): the template with
\* every placeholder replaced by the value the request's context gives it
RECURSIVE Interpolate(_, _)
Interpolate(template, context) ==
  IF template = <<>> THEN <<>>
  ELSE (IF Head(template) = Placeholder THEN context.host ELSE << Head(template) >>)
       \o Interpolate(Tail(template), context)

\* getInterpolatedHeadersFactory(template)(resolverData)
InterpolateHeaders(template, context) ==
  [k \in DOMAIN template |->
     IF template[k] = HeaderPlaceholder THEN context.token ELSE template[k]]

\* String.prototype.indexOf(pattern), 0-based, -1 when absent
IndexOf(str, pattern) ==
  LET hits == {i \in 0..(Len(str) - Len(pattern)) :
                 SubSeq(str, i + 1, i + Len(pattern)) = pattern}
  IN IF hits = {} THEN -1 ELSE Min(hits)

\* The backtick and single-quote characters
Backtick == "BACKTICK"
Quote == "QUOTE"

\* GetSubstitution of ECMAScript for a string pattern (no captures): in the
\* replacement, $$ is $, $& the match, $ followed by a backtick the text
\* before it, $ followed by a quote the text after it; any other $ stands
\* for itself
RECURSIVE GetSubstitution(_, _, _, _, _)
GetSubstitution(matched, before, after, replacement, i) ==
  IF i > Len(replacement) THEN <<>>
  ELSE IF replacement[i] = "$" /\ i < Len(replacement)
            /\ replacement[i + 1] \in {"$", "&", Backtick, Quote}
       THEN (CASE replacement[i + 1] = "$" -> << "$" >>
               [] replacement[i + 1] = "&" -> matched
               [] replacement[i + 1] = Backtick -> before
               [] OTHER -> after)
            \o GetSubstitution(matched, before, after, replacement, i + 2)
       ELSE << replacement[i] >>
            \o GetSubstitution(matched, before, after, replacement, i + 1)

\* String.prototype.replace(pattern, replacement) with a string pattern:
\* the first occurrence only, the $ patterns of the replacement expanded
Replace(str, pattern, replacement) ==
  LET pos == IndexOf(str, pattern)
  IN IF pos = -1 THEN str
     ELSE LET before == SubSeq(str, 1, pos)
              after == SubSeq(str, pos + Len(pattern) + 1, Len(str))
          IN before \o GetSubstitution(pattern, before, after, replacement, 1) \o after

\* obj.field, undefined when the object has no such property
Prop(obj, field) == IF field \in DOMAIN obj THEN obj[field] ELSE Undefined

\* Object.assign(target, source) on header sets
ObjectAssign(target, source) ==
  [k \in (DOMAIN target) \cup (DOMAIN source) |->
     IF k \in DOMAIN source THEN source[k] ELSE target[k]]

NoHeaders == [k \in {} |-> ""]
HeadersObject(entries) == [type |-> "object", entries |-> entries]
Array(items) == [type |-> "array", items |-> items]

\* line 87: this.config.subgraphs || []
SubgraphConfigs(cfg) == Or(cfg.subgraphs, Array(<<>>)).items

\* lines 90-93: the handler-level factory, undefined when operationHeaders
\* is null or undefined
OperationHeadersFactory(cfg) ==
  IF NotNullish(cfg.operationHeaders) THEN cfg.operationHeaders ELSE Undefined

\* A variant of FindSubgraphConfiguration without the default object.
FindSubgraphConfigurationNoDefault(subgraphConfigs, subgraphRealName, subgraphName) ==
  LET hits == {i \in DOMAIN subgraphConfigs :
                 JsStr(subgraphConfigs[i].name) = subgraphRealName}
  IN IF hits = {} THEN Undefined ELSE subgraphConfigs[Min(hits)]

\* lines 115-119: subgraphConfigs.find(c => c.name === subgraphRealName)
\* || { name: subgraphName }
FindSubgraphConfiguration(subgraphConfigs, subgraphRealName, subgraphName) ==
  LET hits == {i \in DOMAIN subgraphConfigs :
                 JsStr(subgraphConfigs[i].name) = subgraphRealName}
  IN IF hits = {} THEN [name |-> subgraphName] ELSE subgraphConfigs[Min(hits)]

\* line 120: subgraphConfiguration.endpoint || nonInterpolatedEndpoint
NonInterpolatedEndpoint(subgraphConfiguration, declared) ==
  Or(Prop(subgraphConfiguration, "endpoint"), declared)

\* A variant of ExecutorOptions that spreads the configuration last.
ExecutorOptionsSpreadLast(subgraphConfiguration, nonInterpolatedEndpoint) ==
  [k \in (DOMAIN subgraphConfiguration) \cup {"endpoint"} |->
     IF k \in DOMAIN subgraphConfiguration
     THEN subgraphConfiguration[k] ELSE nonInterpolatedEndpoint]

\* lines 122-124: { ...subgraphConfiguration, endpoint: nonInterpolatedEndpoint }
ExecutorOptions(subgraphConfiguration, nonInterpolatedEndpoint) ==
  [k \in (DOMAIN subgraphConfiguration) \cup {"endpoint"} |->
     IF k = "endpoint" THEN nonInterpolatedEndpoint ELSE subgraphConfiguration[k]]

\* lines 112-155: the callback.  It yields the record with its executor
\* populated; reading .endpoint of an undefined configuration is a TypeError,
\* which leaves the record as it was.
OnSubschemaConfig(subgraphConfig, nameIdMap, cfg) ==
  LET subgraphName == subgraphConfig.name
      subgraphRealName == MapGet(nameIdMap, subgraphName)
      subgraphConfiguration ==
        FindSubgraphConfiguration(SubgraphConfigs(cfg), subgraphRealName, subgraphName)
  IN IF "type" \in DOMAIN subgraphConfiguration
     THEN [subgraphConfig EXCEPT !.threw = TRUE]
     ELSE LET nonInterpolatedEndpoint ==
                NonInterpolatedEndpoint(subgraphConfiguration, subgraphConfig.endpoint)
          IN [subgraphConfig EXCEPT
                !.executor =
                  [type |-> "object",
                   options |-> ExecutorOptions(subgraphConfiguration, nonInterpolatedEndpoint),
                   endpointFactory |-> nonInterpolatedEndpoint,
                   nonInterpolatedEndpoint |-> nonInterpolatedEndpoint,
                   subgraphConfiguration |-> subgraphConfiguration,
                   operationHeadersFactory |-> OperationHeadersFactory(cfg)]]

\* lines 125-133: fetch(url, init, context, info): the URL handed to fetchFn
ExecutorFetch(executor, url, context) ==
  LET endpoint == Interpolate(executor.endpointFactory.value, context)
  IN Replace(url, executor.nonInterpolatedEndpoint.value, endpoint)

\* A variant of ExecutorHeaders that merges the handler-level headers first.
ExecutorHeadersHandlerFirst(executor, context) ==
  LET h1 == IF NotNullish(executor.operationHeadersFactory)
            THEN ObjectAssign(NoHeaders,
                   InterpolateHeaders(executor.operationHeadersFactory.entries, context))
            ELSE NoHeaders
  IN IF Truthy(Prop(executor.subgraphConfiguration, "operationHeaders"))
     THEN ObjectAssign(h1,
            InterpolateHeaders(executor.subgraphConfiguration.operationHeaders.entries,
                               context))
     ELSE h1

\* lines 134-153: headers(executorRequest)
ExecutorHeaders(executor, context) ==
  LET h1 == IF Truthy(Prop(executor.subgraphConfiguration, "operationHeaders"))
            THEN ObjectAssign(NoHeaders,
                   InterpolateHeaders(
                     executor.subgraphConfiguration.operationHeaders.entries, context))
            ELSE NoHeaders
  IN IF Truthy(executor.operationHeadersFactory)
     THEN ObjectAssign(h1,
            InterpolateHeaders(executor.operationHeadersFactory.entries, context))
     ELSE h1

(***************************************************************************)
(* The loader.                                                             *)
(***************************************************************************)
EnvSupergraph == "https://gw.example/supergraph.graphql"
LocalSupergraph == "./supergraph.graphql"
Sources == {"{env.SUPERGRAPH}", LocalSupergraph}

\* lines 51-53: stringInterpolator.parse(this.config.source, { env })
InterpolatedSource(cfg) ==
  IF cfg.source = "{env.SUPERGRAPH}" THEN EnvSupergraph ELSE cfg.source

\* isUrl of @graphql-mesh/utils on the locators of the model
IsUrl(locator) == locator = EnvSupergraph

ValidSdl == "enum join__Graph { A @join__graph(name: svcA, url: a) B @join__graph(name: svcB, url: b) }"
InvalidSdl == "enum join__Graph {"

FixtureDocument ==
  DocumentNode(<<
    EnumTypeDefinition("join__Graph",
      << EnumValueNode("A", << Directive("join__graph",
            << StringArg("name", "svcA"), StringArg("url", << "a" >>) >>) >>),
         EnumValueNode("B", << Directive("join__graph",
            << StringArg("name", "svcB"), StringArg("url", << "b" >>) >>) >>) >>) >>)

PreparsedDocument ==
  DocumentNode(<<
    ObjectTypeDefinition("Query"),
    EnumTypeDefinition("join__Graph",
      << EnumValueNode("A", << Directive("join__graph",
            << StringArg("name", "svcA"), StringArg("url", << "a" >>) >>) >>) >>) >>)

\* What readUrl / readFile can yield: a string, a parsed document, some
\* other value, or a rejection.
Rejects == [type |-> "rejects", message |-> "ENOENT"]
Resources ==
  { JsStr(ValidSdl), JsStr(InvalidSdl), PreparsedDocument,
    [type |-> "object", kind |-> "Document"],
    [type |-> "object", data |-> "__schema"],
    Null, Undefined, Rejects }

\* parse(sdl, { noLocation: true }) of graphql-js on the strings of the model
ParseThrows(sdl) == sdl # ValidSdl
Parse(sdl) == FixtureDocument

Thrown(what, locator) == [ok |-> FALSE, error |-> [what |-> what, locator |-> locator]]
Returned(v) == [ok |-> TRUE, value |-> v]

\* lines 164-183
handleSupergraphResponse(sdlOrDocumentNode, interpolatedSource) ==
  IF sdlOrDocumentNode.type = "string"
  THEN IF ParseThrows(sdlOrDocumentNode.value)
       THEN Thrown("invalid SDL", interpolatedSource)
       ELSE Returned(Parse(sdlOrDocumentNode.value))
  ELSE IF ~(/\ sdlOrDocumentNode.type = "object"
            /\ "kind" \in DOMAIN sdlOrDocumentNode
            /\ sdlOrDocumentNode.kind = "Document")
       THEN Thrown("invalid result", interpolatedSource)
       ELSE Returned(sdlOrDocumentNode)

\* lines 55-67 and 70-82: the read's promise with its .catch, then
\* handleSupergraphResponse
LoadOutcome(read, interpolatedSource) ==
  IF read.type = "rejects"
  THEN Thrown("failed to load", interpolatedSource)
  ELSE handleSupergraphResponse(read, interpolatedSource)

\* The subgraph records getStitchedSchemaFromSupergraphSdl hands to
\* onSubschemaConfig: one per join__Graph value, with the url it declares.
AssemblerSubgraphs(doc) ==
  IF JoingraphEnum(doc) = {} THEN {}
  ELSE LET values == (CHOOSE e \in JoingraphEnum(doc) : TRUE).values
       IN { [name |-> values[i].name,
             endpoint |-> JsStr(values[i].directives[1].arguments[2].value.value),
             executor |-> Undefined,
             threw |-> FALSE] : i \in DOMAIN values }

\* lines 90-160: getMeshSource after the document is loaded.  Reading
\* .definitions.find of a value without definitions is a TypeError that
\* names no locator.
MeshSource(doc, cfg) ==
  IF "definitions" \notin DOMAIN doc
  THEN Thrown("TypeError", "")
  ELSE Returned([schema |->
         { OnSubschemaConfig(sub, JoinGraphNameMap(doc), cfg) : sub \in AssemblerSubgraphs(doc) }])

Calls == 1..MaxCalls
FetchFns == {"fetchA", "fetchB"}

Idle == [pc |-> "idle", fetchFn |-> "", read |-> 0, awaited |-> Undefined,
         doc |-> 0, result |-> Undefined]
NoLoad == [state |-> "none", by |-> 0, read |-> 0]
Empty == [set |-> FALSE, value |-> Undefined, inst |-> 0]

\* The settled value of an awaited load: the outcome and the read it is of.
Settled(outcome, read) == [type |-> "settled", outcome |-> outcome, read |-> read]

ReadsOf(fn) == {i \in DOMAIN reads : reads[i].fn = fn}

\* A variant of LoadsThroughStore that caches every source.
LoadsThroughStoreAlways(interpolatedSource) == TRUE

\* A variant of LoadsThroughStore that caches no source.
LoadsThroughStoreNever(interpolatedSource) == FALSE

\* lines 54 and 69: only a source that is not a URL goes through
\* this.supergraphSdl.getWithSet
LoadsThroughStore(interpolatedSource) == ~IsUrl(interpolatedSource)

\* lines 55-66: readUrl is called, with fetch: this.fetchFn, and awaited
ReadUrl(c) ==
  /\ reads' = Append(reads, [fn |-> "readUrl", by |-> c, fetch |-> fetchFn',
                              settled |-> "pending"])
  /\ calls' = [calls EXCEPT ![c].pc = "readUrl", ![c].fetchFn = fetchFn',
                            ![c].read = Len(reads) + 1]
  /\ UNCHANGED << supergraphSdl, inflight, populations >>

\* lines 70-81: the callback given to getWithSet calls readFile, with
\* fetch: this.fetchFn as it is when the callback runs
SetterReads(c) == [fn |-> "readFile", by |-> c, fetch |-> fetchFn', settled |-> "pending"]

\* StoreProxy.getWithSet: a cached value is returned; on a miss the callback
\* is run (at once or after the store has looked the value up) unless a
\* load is already pending, which the caller then shares.
GetWithSet(c) ==
  /\ calls' = [calls EXCEPT
       ![c].pc = "getWithSet", ![c].fetchFn = fetchFn',
       ![c].awaited = IF supergraphSdl.set
                      THEN Settled(Returned(supergraphSdl.value), supergraphSdl.inst)
                      ELSE Undefined]
  /\ UNCHANGED << supergraphSdl, populations >>
  /\ IF supergraphSdl.set \/ inflight.state # "none"
     THEN UNCHANGED << inflight, reads >>
     ELSE \/ /\ inflight' = [state |-> "scheduled", by |-> c, read |-> 0]
             /\ UNCHANGED reads
          \/ /\ inflight' = [state |-> "reading", by |-> c, read |-> Len(reads) + 1]
             /\ reads' = Append(reads, SetterReads(c))

\* lines 86-89: getMeshSource({ fetchFn }) up to its await
GetMeshSource(c, f) ==
  /\ calls[c].pc = "idle"
  /\ fetchFn' = f
  /\ IF LoadsThroughStore(InterpolatedSource(config)) THEN GetWithSet(c) ELSE ReadUrl(c)
  /\ UNCHANGED << config, resource, changes, assemblerCalls,
                  mapDoc, subgraphNameIdMap, subschemaConfig, outbound >>

\* The store runs the pending callback.
RunSetter ==
  /\ inflight.state = "scheduled"
  /\ fetchFn' = fetchFn
  /\ inflight' = [inflight EXCEPT !.state = "reading", !.read = Len(reads) + 1]
  /\ reads' = Append(reads, SetterReads(inflight.by))
  /\ UNCHANGED << config, resource, changes, supergraphSdl, calls, populations,
                  assemblerCalls, mapDoc, subgraphNameIdMap, subschemaConfig, outbound >>

\* lines 89-160: the rest of getMeshSource once the awaited load settles
Resume(c, settled) ==
  LET result == IF settled.outcome.ok
                THEN MeshSource(settled.outcome.value, config)
                ELSE settled.outcome
      assembled == settled.outcome.ok /\ result.ok
  IN /\ calls' = [calls EXCEPT
          ![c].pc = IF result.ok THEN "returned" ELSE "threw",
          ![c].awaited = settled,
          ![c].doc = IF settled.outcome.ok THEN settled.read ELSE 0,
          ![c].result = result]
     /\ assemblerCalls' = assemblerCalls + (IF assembled THEN 1 ELSE 0)

\* readUrl settles and the call resumes at line 67
ReadUrlSettles(c) ==
  /\ calls[c].pc = "readUrl"
  /\ LET outcome == LoadOutcome(resource, InterpolatedSource(config))
     IN /\ Resume(c, Settled(outcome, calls[c].read))
        /\ reads' = [reads EXCEPT ![calls[c].read].settled =
                        IF outcome.ok THEN "ok" ELSE "failed"]
  /\ UNCHANGED << config, resource, changes, supergraphSdl, inflight, fetchFn,
                  populations, mapDoc, subgraphNameIdMap, subschemaConfig, outbound >>

\* readFile settles inside the callback (line 82); the store keeps the
\* value the callback returned and settles every caller waiting for it
ReadFileSettles ==
  /\ inflight.state = "reading"
  /\ LET outcome == LoadOutcome(resource, InterpolatedSource(config))
     IN /\ supergraphSdl' = IF outcome.ok
                            THEN [set |-> TRUE, value |-> outcome.value, inst |-> inflight.read]
                            ELSE supergraphSdl
        /\ populations' = populations + (IF outcome.ok THEN 1 ELSE 0)
        /\ reads' = [reads EXCEPT ![inflight.read].settled =
                        IF outcome.ok THEN "ok" ELSE "failed"]
        /\ calls' = [c \in Calls |->
                       IF calls[c].pc = "getWithSet" /\ calls[c].awaited = Undefined
                       THEN [calls[c] EXCEPT !.awaited = Settled(outcome, inflight.read)]
                       ELSE calls[c]]
  /\ inflight' = NoLoad
  /\ UNCHANGED << config, resource, changes, fetchFn, assemblerCalls,
                  mapDoc, subgraphNameIdMap, subschemaConfig, outbound >>

\* the awaited getWithSet promise settles and the call resumes at line 89
GetWithSetSettles(c) ==
  /\ calls[c].pc = "getWithSet"
  /\ calls[c].awaited # Undefined
  /\ Resume(c, calls[c].awaited)
  /\ UNCHANGED << config, resource, changes, supergraphSdl, inflight, fetchFn, reads,
                  populations, mapDoc, subgraphNameIdMap, subschemaConfig, outbound >>

\* The file or the served document is replaced.
ChangeResource ==
  /\ changes < MaxChanges
  /\ changes' = changes + 1
  /\ resource' \in Resources \ {resource}
  /\ UNCHANGED << config, supergraphSdl, inflight, fetchFn, calls, reads, populations,
                  assemblerCalls, mapDoc, subgraphNameIdMap, subschemaConfig, outbound >>

(***************************************************************************)
(* The executor of one subgraph, as the Assembler and the transport use    *)
(* it.                                                                     *)
(***************************************************************************)
SubgraphIds == {"A", "C"}
Declared == [A |-> << "a" >>, C |-> << "c" >>]
NoSubschema == [name |-> "", endpoint |-> Undefined, executor |-> Undefined, threw |-> FALSE]
NoRequest == [type |-> "undefined"]

Contexts ==
  { [host |-> << "p" >>, token |-> "t1"],
    [host |-> << "$", "$" >>, token |-> "t1"],
    [host |-> << "$", "&" >>, token |-> "t2"],
    [host |-> << "$", Quote >>, token |-> "t1"],
    [host |-> << "x", "$", Backtick >>, token |-> "t2"] }
Suffixes == { <<>>, << "?", "o", "p" >> }

\* buildHTTPExecutor: the URL of a request is the endpoint option (or its
\* default) followed by what the request adds
TransportUrl(options, suffix) == Or(options.endpoint, JsStr(<< "/graphql" >>)).value \o suffix

\* getStitchedSchemaFromSupergraphSdl invokes the callback for a subgraph,
\* once
AssemblerConfigures(id) ==
  /\ subschemaConfig = NoSubschema
  /\ subschemaConfig' =
       OnSubschemaConfig([name |-> id, endpoint |-> JsStr(Declared[id]),
                          executor |-> Undefined, threw |-> FALSE],
                         subgraphNameIdMap, config)
  /\ UNCHANGED << config, loaderVars, mapDoc, subgraphNameIdMap, outbound >>

\* The transport performs one request with the executor: it asks headers()
\* for the headers and hands its URL to fetch() (lines 125-153)
ExecutorRequest(context, suffix) ==
  /\ subschemaConfig.executor # Undefined
  /\ LET executor == subschemaConfig.executor
         url == TransportUrl(executor.options, suffix)
     IN outbound' = [name |-> subschemaConfig.name,
                     executor |-> executor,
                     context |-> context,
                     suffix |-> suffix,
                     url |-> ExecutorFetch(executor, url, context),
                     headers |-> ExecutorHeaders(executor, context)]
  /\ UNCHANGED << config, loaderVars, mapDoc, subgraphNameIdMap, subschemaConfig >>

\* lines 97-109 applied to a document
BuildNameMap ==
  /\ subgraphNameIdMap = NotBuilt
  /\ subgraphNameIdMap' = JoinGraphNameMap(mapDoc)
  /\ UNCHANGED << config, loaderVars, mapDoc, subschemaConfig, outbound >>

(***************************************************************************)
(* Initial states.                                                         *)
(***************************************************************************)
NoFields == [k \in {} |-> ""]
SubgraphHeaders == [A |-> "1", B |-> HeaderPlaceholder]
HandlerHeaders == [B |-> "3", C |-> HeaderPlaceholder]
EndpointTemplate == << "h", Placeholder >>

SubgraphConfigurations ==
  { [name |-> n] @@ e @@ h :
      n \in {"svcA", "svcB"},
      e \in {NoFields, [endpoint |-> JsStr(<<>>)], [endpoint |-> JsStr(EndpointTemplate)]},
      h \in {NoFields, [operationHeaders |-> HeadersObject(SubgraphHeaders)]} }

SubgraphLists == UNION {[1..n -> SubgraphConfigurations] : n \in 0..MaxConfigs}

NameMaps ==
  { EmptyMap, [A |-> "svcA", B |-> "svcB"] }

LoaderConfigs ==
  { [source |-> s,
     subgraphs |-> Array(<< [name |-> "svcA", endpoint |-> JsStr(EndpointTemplate)] >>),
     operationHeaders |-> HeadersObject(HandlerHeaders)] : s \in Sources }

LoaderStart ==
  /\ changes = 0
  /\ supergraphSdl = Empty
  /\ inflight = NoLoad
  /\ fetchFn = ""
  /\ calls = [c \in Calls |-> Idle]
  /\ reads = <<>>
  /\ populations = 0
  /\ assemblerCalls = 0

Init ==
  /\ config \in LoaderConfigs
  /\ resource \in Resources
  /\ LoaderStart
  /\ mapDoc = FixtureDocument
  /\ subgraphNameIdMap = NotBuilt
  /\ subschemaConfig = NoSubschema
  /\ outbound = NoRequest

Next ==
  \/ \E c \in Calls, f \in FetchFns : GetMeshSource(c, f)
  \/ \E c \in Calls : ReadUrlSettles(c)
  \/ RunSetter
  \/ ReadFileSettles
  \/ \E c \in Calls : GetWithSetSettles(c)
  \/ ChangeResource

Spec == Init /\ [][Next]_vars

\* Loads made one after the other on a resource that does not change.
NoneActive == \A c \in Calls : calls[c].pc \in {"idle", "returned", "threw"}

SeqNext ==
  \/ \E c \in Calls, f \in FetchFns : NoneActive /\ GetMeshSource(c, f)
  \/ \E c \in Calls : ReadUrlSettles(c)
  \/ RunSetter
  \/ ReadFileSettles
  \/ \E c \in Calls : GetWithSetSettles(c)

SeqSpec == Init /\ [][SeqNext]_vars

\* The name map of every document of MapDocs.
MapInit ==
  /\ config \in {cfg \in LoaderConfigs : cfg.source = LocalSupergraph}
  /\ resource = PreparsedDocument
  /\ LoaderStart
  /\ mapDoc \in MapDocs
  /\ subgraphNameIdMap = NotBuilt
  /\ subschemaConfig = NoSubschema
  /\ outbound = NoRequest

MapNext == BuildNameMap

MapSpec == MapInit /\ [][MapNext]_vars

\* The executors of every configuration, and their requests.
ExecInit ==
  /\ config \in { [source |-> LocalSupergraph, subgraphs |-> sg, operationHeaders |-> oh] :
                     sg \in {Undefined} \cup {Array(l) : l \in SubgraphLists},
                     oh \in {Undefined, Null, HeadersObject(HandlerHeaders)} }
  /\ resource = PreparsedDocument
  /\ LoaderStart
  /\ mapDoc = FixtureDocument
  /\ subgraphNameIdMap \in NameMaps
  /\ subschemaConfig = NoSubschema
  /\ outbound = NoRequest

ExecNext ==
  \/ \E id \in SubgraphIds : AssemblerConfigures(id)
  \/ \E context \in Contexts, suffix \in Suffixes : ExecutorRequest(context, suffix)

ExecSpec == ExecInit /\ [][ExecNext]_vars

(***************************************************************************)
(* Properties.                                                             *)
(***************************************************************************)
FileSource == ~IsUrl(InterpolatedSource(config))
Loaded == {c \in Calls : calls[c].doc # 0}
Started == {c \in Calls : calls[c].pc # "idle"}

\* C1: for a file source whose resource does not change, loads made one
\* after the other all return the same document, and once a load has
\* populated the cache readFile has been called exactly once.
C1_SequentialFileLoadsReadOnce ==
  FileSource =>
    /\ \A c1 \in Loaded, c2 \in Loaded :
         /\ calls[c1].doc = calls[c2].doc
         /\ calls[c1].awaited.outcome.value = calls[c2].awaited.outcome.value
    /\ (supergraphSdl.set \/ Loaded # {}) => Cardinality(ReadsOf("readFile")) = 1

C1_Witness ==
  /\ FileSource
  /\ \A c \in Calls : calls[c].pc = "returned" /\ calls[c].doc = 1
  /\ Cardinality(ReadsOf("readFile")) = 1

\* C2: for a file source, concurrent getSupergraphSdl calls that miss the
\* cache share one load: at most one readFile is pending or successful,
\* the cache is populated at most once, and all callers hold the same
\* document.
C2_ConcurrentMissesLoadOnce ==
  FileSource =>
    /\ populations <= 1
    /\ Cardinality({i \in ReadsOf("readFile") : reads[i].settled # "failed"}) <= 1
    /\ \A c1 \in Loaded, c2 \in Loaded : calls[c1].doc = calls[c2].doc
    /\ \A c \in Loaded : supergraphSdl.set /\ calls[c].doc = supergraphSdl.inst

C2_Witness ==
  /\ FileSource
  /\ inflight.state = "reading"
  /\ \A c \in Calls : calls[c].pc = "getWithSet" /\ calls[c].awaited = Undefined
  /\ Cardinality(ReadsOf("readFile")) = 1

\* C3: for a URL source every load calls readUrl exactly once and the
\* store is neither read nor written.
C3_UrlLoadsAlwaysFetch ==
  ~FileSource =>
    /\ \A c \in Started :
         Cardinality({i \in ReadsOf("readUrl") : reads[i].by = c}) = 1
    /\ Cardinality(ReadsOf("readUrl")) = Cardinality(Started)
    /\ ReadsOf("readFile") = {}
    /\ supergraphSdl = Empty /\ populations = 0 /\ inflight = NoLoad

C3_Witness ==
  /\ ~FileSource
  /\ Cardinality(ReadsOf("readUrl")) = Cardinality(Calls)
  /\ \E c1 \in Calls, c2 \in Calls :
       calls[c1].pc = "returned" /\ calls[c2].pc = "threw"

\* The directives of a value that name it: join__graph directives whose
\* first "name" argument is a string literal.
NamingDirectives(ds) ==
  {i \in DOMAIN ds :
     /\ ds[i].name = "join__graph"
     /\ \E j \in DOMAIN ds[i].arguments :
          /\ ds[i].arguments[j].name = "name"
          /\ \A k \in 1..(j - 1) : ds[i].arguments[k].name # "name"
          /\ ds[i].arguments[j].value.kind = "StringValue"}

NameGiven(d) ==
  LET j == CHOOSE j \in DOMAIN d.arguments :
             /\ d.arguments[j].name = "name"
             /\ \A k \in 1..(j - 1) : d.arguments[k].name # "name"
  IN d.arguments[j].value.value

EnumValuesOf(doc) ==
  IF \E i \in DOMAIN doc.definitions :
       doc.definitions[i].kind = "EnumTypeDefinition" /\ doc.definitions[i].name = "join__Graph"
  THEN LET values ==
             doc.definitions[CHOOSE i \in DOMAIN doc.definitions :
               /\ doc.definitions[i].kind = "EnumTypeDefinition"
               /\ doc.definitions[i].name = "join__Graph"
               /\ \A k \in 1..(i - 1) :
                    ~(doc.definitions[k].kind = "EnumTypeDefinition"
                      /\ doc.definitions[k].name = "join__Graph")].values
       IN {values[i] : i \in DOMAIN values}
  ELSE {}

Max(S) == CHOOSE x \in S : \A y \in S : x >= y

FirstMatchMap(doc) ==
  LET named == {v \in EnumValuesOf(doc) : NamingDirectives(v.directives) # {}}
  IN [id \in {v.name : v \in named} |->
        LET v == CHOOSE v \in named : v.name = id
        IN NameGiven(v.directives[Min(NamingDirectives(v.directives))])]

LastMatchMap(doc) ==
  LET named == {v \in EnumValuesOf(doc) : NamingDirectives(v.directives) # {}}
  IN [id \in {v.name : v \in named} |->
        LET v == CHOOSE v \in named : v.name = id
        IN NameGiven(v.directives[Max(NamingDirectives(v.directives))])]

\* C4 as stated: the name map keeps, for every value of join__Graph, the
\* name of the first join__graph directive with a string name argument.
C4_FirstMatchWins ==
  subgraphNameIdMap # NotBuilt => subgraphNameIdMap = FirstMatchMap(mapDoc)

\* C4 as amended: the name map keeps, for every value of join__Graph, the
\* name of the last join__graph directive with a string name argument; a
\* value without such a directive is absent, and without the enum the map
\* is empty.
C4_LastMatchWins ==
  subgraphNameIdMap # NotBuilt => subgraphNameIdMap = LastMatchMap(mapDoc)

C4_Witness ==
  /\ subgraphNameIdMap # NotBuilt
  /\ DOMAIN subgraphNameIdMap = {"A"}
  /\ subgraphNameIdMap["A"] = "svcB"
  /\ \E v \in EnumValuesOf(mapDoc) :
       /\ v.name = "A"
       /\ Cardinality(NamingDirectives(v.directives)) = 2
       /\ NameGiven(v.directives[Min(NamingDirectives(v.directives))]) = "svcA"
  /\ \E v \in EnumValuesOf(mapDoc) : v.name = "B" /\ v.directives # <<>>

Configured == subschemaConfig.name # ""
ConfiguredNames == {SubgraphConfigs(config)[i].name : i \in DOMAIN SubgraphConfigs(config)}
Evaluated(template, context) ==
  [k \in DOMAIN template |->
     IF template[k] = "{context.token}" THEN context.token ELSE template[k]]
HandlerLevel(context) ==
  IF config.operationHeaders.type = "object"
  THEN Evaluated(config.operationHeaders.entries, context) ELSE NoHeaders
SubgraphLevel(subgraphConfiguration, context) ==
  IF "operationHeaders" \in DOMAIN subgraphConfiguration
  THEN Evaluated(subgraphConfiguration.operationHeaders.entries, context) ELSE NoHeaders

\* C5: for an identifier that is in neither the name map nor the configured
\* subgraphs, the callback does not throw and populates an executor whose
\* endpoint is the declared one and whose headers are the handler-level
\* headers alone.
C5_UnknownSubgraphFallsBack ==
  (/\ Configured
   /\ subschemaConfig.name \notin DOMAIN subgraphNameIdMap
   /\ subschemaConfig.name \notin ConfiguredNames)
  => /\ ~subschemaConfig.threw
     /\ subschemaConfig.executor # Undefined
     /\ subschemaConfig.executor.options.endpoint = subschemaConfig.endpoint
     /\ outbound # NoRequest =>
          /\ outbound.headers = HandlerLevel(outbound.context)
          /\ outbound.url = subschemaConfig.endpoint.value \o outbound.suffix

C5_Witness ==
  /\ subschemaConfig.name = "C"
  /\ subgraphNameIdMap # EmptyMap
  /\ ConfiguredNames # {}
  /\ outbound # NoRequest
  /\ outbound.headers = [B |-> "3", C |-> "t1"]

\* C6 as stated: the URL handed to fetchFn is the evaluated endpoint
\* followed by whatever followed the static endpoint in the incoming URL.
C6_EndpointSubstituted ==
  outbound # NoRequest =>
    outbound.url =
      Interpolate(outbound.executor.nonInterpolatedEndpoint.value, outbound.context)
      \o outbound.suffix

\* C7: the headers of a request are the subgraph-level headers overlaid by
\* the handler-level headers, both evaluated for that request alone.
C7_HandlerHeadersOverlaySubgraphHeaders ==
  outbound # NoRequest =>
    LET handler == HandlerLevel(outbound.context)
        subgraph == SubgraphLevel(outbound.executor.subgraphConfiguration, outbound.context)
    IN /\ DOMAIN outbound.headers = (DOMAIN handler) \cup (DOMAIN subgraph)
       /\ \A k \in DOMAIN handler : outbound.headers[k] = handler[k]
       /\ \A k \in (DOMAIN subgraph) \ (DOMAIN handler) :
            outbound.headers[k] = subgraph[k]

C7_Witness ==
  /\ outbound # NoRequest
  /\ outbound.context.token = "t2"
  /\ "operationHeaders" \in DOMAIN outbound.executor.subgraphConfiguration
  /\ outbound.headers = [A |-> "1", B |-> "3", C |-> "t2"]

\* C8 as stated: a call that fails carries an error naming the
\* interpolated locator, the Assembler runs only for the calls that return,
\* every document that was accepted has its definitions, and no call reads
\* twice.
C8_LoadFailuresNameTheLocator ==
  /\ \A c \in Calls :
       calls[c].pc = "threw" =>
         calls[c].result.error.locator = InterpolatedSource(config)
  /\ assemblerCalls = Cardinality({c \in Calls : calls[c].pc = "returned"})
  /\ \A c \in Calls : Cardinality({i \in DOMAIN reads : reads[i].by = c}) <= 1

\* C9 as stated: the effective endpoint is subgraphConfig.endpoint ??
\* config.endpoint.
C9_EndpointNullishCoalesced ==
  Configured =>
    LET subgraphConfiguration == subschemaConfig.executor.subgraphConfiguration
        effective == IF "endpoint" \in DOMAIN subgraphConfiguration
                     THEN subgraphConfiguration.endpoint ELSE subschemaConfig.endpoint
    IN subschemaConfig.executor.options.endpoint = effective

\* C9 as amended: the effective endpoint is subgraphConfig.endpoint ||
\* config.endpoint (an empty configured endpoint falls back to the declared
\* one), and it is both the template evaluated per request and the
\* endpoint given to the transport.
C9_EndpointFalsyFallsBack ==
  Configured =>
    LET subgraphConfiguration == subschemaConfig.executor.subgraphConfiguration
        effective == IF /\ "endpoint" \in DOMAIN subgraphConfiguration
                        /\ subgraphConfiguration.endpoint.value # <<>>
                     THEN subgraphConfiguration.endpoint ELSE subschemaConfig.endpoint
    IN /\ subschemaConfig.executor.options.endpoint = effective
       /\ subschemaConfig.executor.endpointFactory = effective
       /\ subschemaConfig.executor.nonInterpolatedEndpoint = effective

C9_Witness ==
  /\ Configured
  /\ "endpoint" \in DOMAIN subschemaConfig.executor.subgraphConfiguration
  /\ subschemaConfig.executor.subgraphConfiguration.endpoint = JsStr(<<>>)
  /\ subschemaConfig.executor.options.endpoint = JsStr(<< "a" >>)
  /\ outbound # NoRequest

====
